---- MODULE Spec2Model ----
(***************************************************************************)
(* Model of common/configtx/config.go: the recursive propose / preCommit / *)
(* commit / rollback walk of a configuration tree (configManager and       *)
(* configResult).                                                          *)
(*                                                                         *)
(* A ConfigGroup is identified by a natural number; the name under which a *)
(* group is stored in its parent's Groups map is that same number.  The    *)
(* handlers (config.ValueProposer, policies.Proposer) are external: every  *)
(* call made on one is appended to `log`, and the calls that fail are the  *)
(* ones listed in `faults`.  A handler is identified by the group name it  *)
(* was created for by its parent handler's Begin*Proposals.                *)
(***************************************************************************)
EXTENDS Integers, Sequences, FiniteSets, TLC

\* ---------------------------------------------------------------- bounds
MaxNodes    == 4    \* groups in the tree handed to processConfig
NumValues   == 1    \* value keys of every group of that tree
NumPolicies == 1    \* policy keys of every group of that tree
MaxFaults   == 2    \* proposer calls that are set to fail
MaxRuns     == 2    \* processConfig calls over the unchanged tree

\* ------------------------------------------------------------- constants
HelperGroup  == 0   \* the group made by cb.NewConfigGroup() in processConfig
RootGroupKey == 1   \* the name under which channelGroup is put in helperGroup
ExtraHandler == MaxNodes + 1   \* a handler returned beyond the declared names

VARIABLES
    channelGroup,   \* the tree passed to processConfig: name -> ConfigGroup
    faults,         \* the proposer calls that return an error / a wrong count
    pc,             \* "idle", "built", "failed", "committed", "rolledback"
    log,            \* every call made on a handler during the current run
    groupResult,    \* what processConfig returned (Nil on error)
    err,            \* the error processConfig returned (Nil on success)
    prev,           \* summaries of the earlier runs over the same tree
    run             \* number of the current run

vars == <<channelGroup, faults, pc, log, groupResult, err, prev, run>>

Nil == [kind |-> "nil"]

ValueKeys  == 1..NumValues
PolicyKeys == 1..NumPolicies

Perms(S) == {s \in [1..Cardinality(S) -> S] : \A i, j \in DOMAIN s : i # j => s[i] # s[j]}

\* ------------------------------------------------- the configuration tree
\* cb.ConfigGroup: Groups (child name -> group), Values, Policies.
Group(g) ==
    IF g = HelperGroup
    THEN [Groups |-> {RootGroupKey}, Values |-> {}, Policies |-> {}]
    ELSE channelGroup[g]

\* The trees with k groups: group 1 is the root, the parent of n is below n.
ParentMaps(k) ==
    {p \in [2..k -> 1..k] : \A n \in 2..k : p[n] < n /\ (n < k => p[n] <= p[n + 1])}

TreeOf(k, p) ==
    [n \in 1..k |-> [Groups   |-> {c \in 2..k : p[c] = n},
                     Values   |-> ValueKeys,
                     Policies |-> PolicyKeys]]

Trees == UNION {{TreeOf(k, p) : p \in ParentMaps(k)} : k \in 1..MaxNodes}

Names == DOMAIN channelGroup

\* ------------------------------------------------------------ the faults
\* <<op, handler, key>>: the call `op` on `handler` (for `key`, 0 if none)
\* fails; "ValueHandlerCount" / "PolicyHandlerCount": Begin*Proposals returns
\* a sequence of handlers whose length is not the number of names.
FaultPoints(tree) ==
    LET hs == {HelperGroup} \cup DOMAIN tree
    IN  {<<op, h, 0>> : op \in {"BeginValueProposals", "BeginPolicyProposals",
                                 "ValueHandlerCount", "PolicyHandlerCount",
                                 "PreCommit"}, h \in hs}
        \cup {<<"Deserialize", h, k>> : h \in DOMAIN tree, k \in ValueKeys}
        \cup {<<"ProposePolicy", h, k>> : h \in DOMAIN tree, k \in PolicyKeys}

RECURSIVE FaultSets(_, _)
FaultSets(P, n) ==
    IF n = 0 THEN {{}}
    ELSE LET S == FaultSets(P, n - 1) IN S \cup {s \cup {p} : s \in S, p \in P}

\* --------------------------------------------------- enumeration orders
\* Go's `range` over a map visits the keys in an unspecified order: every
\* proposeGroup call draws an order of group.Groups, of group.Values and of
\* group.Policies.
RECURSIVE OrdersUpTo(_)
OrdersUpTo(n) ==
    IF n < 0 THEN {[groups |-> <<>>, values |-> <<>>, policies |-> <<>>]}
    ELSE {[groups   |-> f.groups @@ (n :> g),
           values   |-> f.values @@ (n :> v),
           policies |-> f.policies @@ (n :> p)] :
            f \in OrdersUpTo(n - 1),
            g \in Perms(Group(n).Groups),
            v \in Perms(Group(n).Values),
            p \in Perms(Group(n).Policies)}

Orders == OrdersUpTo(Cardinality(Names))

\* ------------------------------------------- the handlers (collaborators)
\* One call on a handler: the operation, the handler it is made on (kind and
\* name), its arguments (tx left out), the handlers it returned and its error.
Call(op, kind, h, arg, ret, e) ==
    [op |-> op, kind |-> kind, h |-> h, arg |-> arg, ret |-> ret, err |-> e]

ErrOf(op, h, key) ==
    IF <<op, h, key>> \in faults
    THEN [kind |-> "ValidationFailure", op |-> op, h |-> h, key |-> key]
    ELSE Nil

\* The child handlers a Begin*Proposals returns for the names it is given:
\* positionally aligned, the handler for a name being identified by the name.
\* A handler with the fault `count` returns one handler fewer than there are
\* names (2 for 3), or one more when there is no name to leave out.
SubHandlersFor(count, h, subGroups) ==
    IF <<count, h, 0>> \notin faults THEN subGroups
    ELSE IF Len(subGroups) > 0
    THEN SubSeq(subGroups, 1, Len(subGroups) - 1)
    ELSE Append(subGroups, ExtraHandler)

BeginValueProposals(handler, subGroups, l) ==
    LET e == ErrOf("BeginValueProposals", handler, 0)
        subHandlers == IF e = Nil
                       THEN SubHandlersFor("ValueHandlerCount", handler, subGroups)
                       ELSE <<>>
    IN  [valueDeserializer |-> handler,
         subHandlers |-> subHandlers,
         err |-> e,
         log |-> Append(l, Call("BeginValueProposals", "value", handler, subGroups,
                                subHandlers, e))]

BeginPolicyProposals(policyHandler, subGroups, l) ==
    LET e == ErrOf("BeginPolicyProposals", policyHandler, 0)
        subPolicyHandlers == IF e = Nil
                             THEN SubHandlersFor("PolicyHandlerCount", policyHandler, subGroups)
                             ELSE <<>>
    IN  [subPolicyHandlers |-> subPolicyHandlers,
         err |-> e,
         log |-> Append(l, Call("BeginPolicyProposals", "policy", policyHandler, subGroups,
                                subPolicyHandlers, e))]

\* The payload handed over is the one stored under `key` in `group`: the
\* arguments logged are <<key, group>>.
Deserialize(valueDeserializer, key, group, l) ==
    LET e == ErrOf("Deserialize", valueDeserializer, key)
    IN  [err |-> e,
         log |-> Append(l, Call("Deserialize", "value", valueDeserializer,
                                <<key, group>>, <<>>, e))]

ProposePolicy(policyHandler, key, group, l) ==
    LET e == ErrOf("ProposePolicy", policyHandler, key)
    IN  [err |-> e,
         log |-> Append(l, Call("ProposePolicy", "policy", policyHandler,
                                <<key, group>>, <<>>, e))]

PreCommit(handler, l) ==
    LET e == ErrOf("PreCommit", handler, 0)
    IN  [err |-> e, log |-> Append(l, Call("PreCommit", "value", handler, <<>>, <<>>, e))]

CommitProposals(kind, h, l) == Append(l, Call("CommitProposals", kind, h, <<>>, <<>>, Nil))

RollbackProposals(kind, h, l) == Append(l, Call("RollbackProposals", kind, h, <<>>, <<>>, Nil))

\* ------------------------------------------------------------ configResult
RECURSIVE preCommit(_, _), preCommitSubResults(_, _, _)
RECURSIVE commit(_, _), commitSubResults(_, _, _)
RECURSIVE rollback(_, _), rollbackSubResults(_, _, _)

\* config.go 50-55: the loop of preCommit over cr.subResults, from index i.
preCommitSubResults(subResults, i, l) ==
    IF i > Len(subResults) THEN [err |-> Nil, log |-> l]
    ELSE LET r == preCommit(subResults[i], l)
         IN  IF r.err # Nil THEN r
             ELSE preCommitSubResults(subResults, i + 1, r.log)

\* preCommit calling the node's own handler before its subResults.
preCommitPreOrder(cr, l) ==
    LET r == PreCommit(cr.handler, l)
    IN  IF r.err # Nil THEN r
        ELSE preCommitSubResults(cr.subResults, 1, r.log)

\* preCommit dropping the error of the handler's PreCommit.
preCommitIgnoresError(cr, l) ==
    LET r == preCommitSubResults(cr.subResults, 1, l)
    IN  IF r.err # Nil THEN r
        ELSE [err |-> Nil, log |-> PreCommit(cr.handler, r.log).log]

\* preCommit of the node's own handler only, without the cascade into its
\* subResults.
preCommitSelfOnly(cr, l) == PreCommit(cr.handler, l)

preCommit(cr, l) ==
    LET r == preCommitSubResults(cr.subResults, 1, l)
    IN  IF r.err # Nil THEN r
        ELSE PreCommit(cr.handler, r.log)

commitSubResults(subResults, i, l) ==
    IF i > Len(subResults) THEN l
    ELSE commitSubResults(subResults, i + 1, commit(subResults[i], l))

\* commit calling the node's own handlers before its subResults.
commitPreOrder(cr, l) ==
    commitSubResults(cr.subResults, 1,
        CommitProposals("policy", cr.policyHandler,
            CommitProposals("value", cr.handler, l)))

\* commit calling the policy handler of a node before its value handler.
commitPolicyFirst(cr, l) ==
    CommitProposals("value", cr.handler,
        CommitProposals("policy", cr.policyHandler,
            commitSubResults(cr.subResults, 1, l)))

commit(cr, l) ==
    CommitProposals("policy", cr.policyHandler,
        CommitProposals("value", cr.handler,
            commitSubResults(cr.subResults, 1, l)))

rollbackSubResults(subResults, i, l) ==
    IF i > Len(subResults) THEN l
    ELSE rollbackSubResults(subResults, i + 1, rollback(subResults[i], l))

\* rollback with the calls of commit (config.go 71-72 calling CommitProposals).
rollbackCommits(cr, l) ==
    CommitProposals("policy", cr.policyHandler,
        CommitProposals("value", cr.handler,
            rollbackSubResults(cr.subResults, 1, l)))

\* rollback of the node's own handlers only, without the cascade into its
\* subResults.
rollbackSelfOnly(cr, l) ==
    RollbackProposals("policy", cr.policyHandler,
        RollbackProposals("value", cr.handler, l))

rollback(cr, l) ==
    RollbackProposals("policy", cr.policyHandler,
        RollbackProposals("value", cr.handler,
            rollbackSubResults(cr.subResults, 1, l)))

\* ------------------------------------------------------------ proposeGroup
RECURSIVE proposeGroup(_, _, _, _, _), proposeSubGroups(_, _, _, _, _, _, _)
RECURSIVE deserializeValues(_, _, _, _, _), proposePolicies(_, _, _, _, _)

\* proposeSubGroups without the rollback of config.go 112.
proposeSubGroupsNoRollback(subGroups, subHandlers, subPolicyHandlers, i, result, o, l) ==
    IF i > Len(subGroups) THEN [result |-> result, err |-> Nil, log |-> l]
    ELSE LET sub == proposeGroup(subGroups[i], subHandlers[i], subPolicyHandlers[i], o, l)
         IN  IF sub.err # Nil
             THEN [result |-> Nil, err |-> sub.err, log |-> sub.log]
             ELSE proposeSubGroups(subGroups, subHandlers, subPolicyHandlers, i + 1,
                                   [result EXCEPT !.subResults = Append(@, sub.result)],
                                   o, sub.log)

\* proposeSubGroups reporting a child's error only while no child has
\* succeeded yet (config.go 111 taken as `err != nil && len(subResults) == 0`).
proposeSubGroupsFirstErrorOnly(subGroups, subHandlers, subPolicyHandlers, i, result, o, l) ==
    IF i > Len(subGroups) THEN [result |-> result, err |-> Nil, log |-> l]
    ELSE LET sub == proposeGroup(subGroups[i], subHandlers[i], subPolicyHandlers[i], o, l)
         IN  IF sub.err # Nil /\ Len(result.subResults) = 0
             THEN [result |-> Nil, err |-> sub.err, log |-> rollback(result, sub.log)]
             ELSE proposeSubGroups(subGroups, subHandlers, subPolicyHandlers, i + 1,
                                   IF sub.err # Nil THEN result
                                   ELSE [result EXCEPT !.subResults = Append(@, sub.result)],
                                   o, sub.log)

\* proposeSubGroups handing every child the handlers at the first position
\* (config.go 110 with subHandlers[0], subPolicyHandlers[0]).
proposeSubGroupsFirstHandler(subGroups, subHandlers, subPolicyHandlers, i, result, o, l) ==
    IF i > Len(subGroups) THEN [result |-> result, err |-> Nil, log |-> l]
    ELSE LET sub == proposeGroup(subGroups[i], subHandlers[1], subPolicyHandlers[1], o, l)
         IN  IF sub.err # Nil
             THEN [result |-> Nil, err |-> sub.err, log |-> rollback(result, sub.log)]
             ELSE proposeSubGroups(subGroups, subHandlers, subPolicyHandlers, i + 1,
                                   [result EXCEPT !.subResults = Append(@, sub.result)],
                                   o, sub.log)

\* proposeSubGroups returning a new error in place of the child's.
proposeSubGroupsWrapsError(subGroups, subHandlers, subPolicyHandlers, i, result, o, l) ==
    IF i > Len(subGroups) THEN [result |-> result, err |-> Nil, log |-> l]
    ELSE LET sub == proposeGroup(subGroups[i], subHandlers[i], subPolicyHandlers[i], o, l)
         IN  IF sub.err # Nil
             THEN [result |-> Nil,
                   err |-> [kind |-> "StructuralFailure", op |-> "proposeGroup",
                            h |-> subHandlers[i], key |-> 0],
                   log |-> rollback(result, sub.log)]
             ELSE proposeSubGroups(subGroups, subHandlers, subPolicyHandlers, i + 1,
                                   [result EXCEPT !.subResults = Append(@, sub.result)],
                                   o, sub.log)

\* proposeSubGroups rolling back the handlers of the failed child as well.
proposeSubGroupsRollsBackFailed(subGroups, subHandlers, subPolicyHandlers, i, result, o, l) ==
    IF i > Len(subGroups) THEN [result |-> result, err |-> Nil, log |-> l]
    ELSE LET sub == proposeGroup(subGroups[i], subHandlers[i], subPolicyHandlers[i], o, l)
             failed == [handler |-> subHandlers[i], policyHandler |-> subPolicyHandlers[i],
                        subResults |-> <<>>]
         IN  IF sub.err # Nil
             THEN [result |-> Nil, err |-> sub.err,
                   log |-> rollback([result EXCEPT !.subResults = Append(@, failed)], sub.log)]
             ELSE proposeSubGroups(subGroups, subHandlers, subPolicyHandlers, i + 1,
                                   [result EXCEPT !.subResults = Append(@, sub.result)],
                                   o, sub.log)

\* proposeSubGroups without the append of config.go 115.
proposeSubGroupsNoAppend(subGroups, subHandlers, subPolicyHandlers, i, result, o, l) ==
    IF i > Len(subGroups) THEN [result |-> result, err |-> Nil, log |-> l]
    ELSE LET sub == proposeGroup(subGroups[i], subHandlers[i], subPolicyHandlers[i], o, l)
         IN  IF sub.err # Nil
             THEN [result |-> Nil, err |-> sub.err, log |-> rollback(result, sub.log)]
             ELSE proposeSubGroups(subGroups, subHandlers, subPolicyHandlers, i + 1,
                                   result, o, sub.log)

\* config.go 109-116: the loop over subGroups, from index i; `result` is the
\* configResult of the parent with the subResults appended so far.
proposeSubGroups(subGroups, subHandlers, subPolicyHandlers, i, result, o, l) ==
    IF i > Len(subGroups) THEN [result |-> result, err |-> Nil, log |-> l]
    ELSE LET sub == proposeGroup(subGroups[i], subHandlers[i], subPolicyHandlers[i], o, l)
         IN  IF sub.err # Nil
             THEN [result |-> Nil, err |-> sub.err, log |-> rollback(result, sub.log)]
             ELSE proposeSubGroups(subGroups, subHandlers, subPolicyHandlers, i + 1,
                                   [result EXCEPT !.subResults = Append(@, sub.result)],
                                   o, sub.log)

\* The loop of config.go 118-125 going on after a Deserialize error.
deserializeValuesIgnoresError(valueDeserializer, group, keys, i, l) ==
    IF i > Len(keys) THEN [err |-> Nil, log |-> l]
    ELSE LET r == Deserialize(valueDeserializer, keys[i], group, l)
         IN  deserializeValues(valueDeserializer, group, keys, i + 1, r.log)

\* config.go 118-125: the loop over group.Values in the order `keys`, from i.
\* The message kept in group.deserializedValues (config.go 124) is read by no
\* handler call and is left out.
deserializeValues(valueDeserializer, group, keys, i, l) ==
    IF i > Len(keys) THEN [err |-> Nil, log |-> l]
    ELSE LET r == Deserialize(valueDeserializer, keys[i], group, l)
         IN  IF r.err # Nil THEN r
             ELSE deserializeValues(valueDeserializer, group, keys, i + 1, r.log)

\* config.go 127-132: the loop over group.Policies in the order `keys`, from i.
proposePolicies(policyHandler, group, keys, i, l) ==
    IF i > Len(keys) THEN [err |-> Nil, log |-> l]
    ELSE LET r == ProposePolicy(policyHandler, keys[i], group, l)
         IN  IF r.err # Nil THEN r
             ELSE proposePolicies(policyHandler, group, keys, i + 1, r.log)

\* The handler-count check looking at the policy handlers only.
handlerCountMismatchPolicyOnly(subHandlers, subGroups, subPolicyHandlers) ==
    Len(subPolicyHandlers) # Len(subGroups)

\* config.go 98: the condition of the handler-count check.
handlerCountMismatch(subHandlers, subGroups, subPolicyHandlers) ==
    \/ Len(subHandlers) # Len(subGroups)
    \/ Len(subPolicyHandlers) # Len(subGroups)

\* proposeGroup looking at the error of BeginValueProposals only after it has
\* called BeginPolicyProposals.
proposeGroupBeginsBoth(group, handler, policyHandler, o, l) ==
    LET subGroups == o.groups[group]
        bv == BeginValueProposals(handler, subGroups, l)
    IN
        LET bp == BeginPolicyProposals(policyHandler, subGroups, bv.log)
        IN  IF bv.err # Nil THEN [result |-> Nil, err |-> bv.err, log |-> bp.log]
            ELSE IF bp.err # Nil THEN [result |-> Nil, err |-> bp.err, log |-> bp.log]
            ELSE IF handlerCountMismatch(bv.subHandlers, subGroups, bp.subPolicyHandlers)
            THEN [result |-> Nil,
                  err |-> [kind |-> "Programming error", op |-> "proposeGroup",
                           h |-> handler, key |-> 0],
                  log |-> bp.log]
            ELSE
            LET result == [handler |-> handler, policyHandler |-> policyHandler,
                           subResults |-> <<>>]
                subs == proposeSubGroups(subGroups, bv.subHandlers, bp.subPolicyHandlers,
                                         1, result, o, bp.log)
            IN  IF subs.err # Nil THEN subs
                ELSE
                LET vals == deserializeValues(bv.valueDeserializer, group, o.values[group], 1, subs.log)
                IN  IF vals.err # Nil
                    THEN [result |-> Nil, err |-> vals.err,
                          log |-> rollback(subs.result, vals.log)]
                    ELSE
                    LET pols == proposePolicies(policyHandler, group, o.policies[group], 1, vals.log)
                    IN  IF pols.err # Nil
                        THEN [result |-> Nil, err |-> pols.err,
                              log |-> rollback(subs.result, pols.log)]
                        ELSE
                        LET pre == preCommit(subs.result, pols.log)
                        IN  IF pre.err # Nil
                            THEN [result |-> Nil, err |-> pre.err,
                                  log |-> rollback(subs.result, pre.log)]
                            ELSE [result |-> subs.result, err |-> Nil, log |-> pre.log]

\* proposeGroup without the rollback of config.go 136.
proposeGroupNoRollbackOnPreCommit(group, handler, policyHandler, o, l) ==
    LET subGroups == o.groups[group]
        bv == BeginValueProposals(handler, subGroups, l)
    IN  IF bv.err # Nil THEN [result |-> Nil, err |-> bv.err, log |-> bv.log]
        ELSE
        LET bp == BeginPolicyProposals(policyHandler, subGroups, bv.log)
        IN  IF bp.err # Nil THEN [result |-> Nil, err |-> bp.err, log |-> bp.log]
            ELSE IF handlerCountMismatch(bv.subHandlers, subGroups, bp.subPolicyHandlers)
            THEN [result |-> Nil,
                  err |-> [kind |-> "Programming error", op |-> "proposeGroup",
                           h |-> handler, key |-> 0],
                  log |-> bp.log]
            ELSE
            LET result == [handler |-> handler, policyHandler |-> policyHandler,
                           subResults |-> <<>>]
                subs == proposeSubGroups(subGroups, bv.subHandlers, bp.subPolicyHandlers,
                                         1, result, o, bp.log)
            IN  IF subs.err # Nil THEN subs
                ELSE
                LET vals == deserializeValues(bv.valueDeserializer, group, o.values[group], 1, subs.log)
                IN  IF vals.err # Nil
                    THEN [result |-> Nil, err |-> vals.err,
                          log |-> rollback(subs.result, vals.log)]
                    ELSE
                    LET pols == proposePolicies(policyHandler, group, o.policies[group], 1, vals.log)
                    IN  IF pols.err # Nil
                        THEN [result |-> Nil, err |-> pols.err,
                              log |-> rollback(subs.result, pols.log)]
                        ELSE
                        LET pre == preCommit(subs.result, pols.log)
                        IN  IF pre.err # Nil
                            THEN [result |-> Nil, err |-> pre.err, log |-> pre.log]
                            ELSE [result |-> subs.result, err |-> Nil, log |-> pre.log]

\* config.go 79-141.  `group` names the ConfigGroup proposed, `o` gives the
\* orders the maps are enumerated in, `l` is the log of the calls made so far;
\* the value is the returned pair (result, err) and the log extended with the
\* calls made.
proposeGroup(group, handler, policyHandler, o, l) ==
    LET subGroups == o.groups[group]
        bv == BeginValueProposals(handler, subGroups, l)
    IN  IF bv.err # Nil THEN [result |-> Nil, err |-> bv.err, log |-> bv.log]
        ELSE
        LET bp == BeginPolicyProposals(policyHandler, subGroups, bv.log)
        IN  IF bp.err # Nil THEN [result |-> Nil, err |-> bp.err, log |-> bp.log]
            ELSE IF handlerCountMismatch(bv.subHandlers, subGroups, bp.subPolicyHandlers)
            THEN [result |-> Nil,
                  err |-> [kind |-> "Programming error", op |-> "proposeGroup",
                           h |-> handler, key |-> 0],
                  log |-> bp.log]
            ELSE
            LET result == [handler |-> handler, policyHandler |-> policyHandler,
                           subResults |-> <<>>]
                subs == proposeSubGroups(subGroups, bv.subHandlers, bp.subPolicyHandlers,
                                         1, result, o, bp.log)
            IN  IF subs.err # Nil THEN subs
                ELSE
                LET vals == deserializeValues(bv.valueDeserializer, group, o.values[group], 1, subs.log)
                IN  IF vals.err # Nil
                    THEN [result |-> Nil, err |-> vals.err,
                          log |-> rollback(subs.result, vals.log)]
                    ELSE
                    LET pols == proposePolicies(policyHandler, group, o.policies[group], 1, vals.log)
                    IN  IF pols.err # Nil
                        THEN [result |-> Nil, err |-> pols.err,
                              log |-> rollback(subs.result, pols.log)]
                        ELSE
                        LET pre == preCommit(subs.result, pols.log)
                        IN  IF pre.err # Nil
                            THEN [result |-> Nil, err |-> pre.err,
                                  log |-> rollback(subs.result, pre.log)]
                            ELSE [result |-> subs.result, err |-> Nil, log |-> pre.log]

\* ----------------------------------------------------------- processConfig
\* initializer.ValueProposer() / PolicyProposer(): the top-level handlers.
TopHandler == HelperGroup

\* processConfig proposing channelGroup itself to the top-level handlers.
processConfigUnwrapped(o, l) ==
    proposeGroup(RootGroupKey, TopHandler, TopHandler, o, l)

processConfig(o, l) ==
    proposeGroup(HelperGroup, TopHandler, TopHandler, o, l)

\* What one run leaves to compare with another run over the same tree.
Proposed(l) ==
    {<<l[i].op, l[i].h, l[i].arg>> :
        i \in {j \in DOMAIN l : l[j].op \in {"Deserialize", "ProposePolicy"}}}

HandlersInvoked(l) ==
    {<<l[i].kind, l[i].h>> :
        i \in {j \in DOMAIN l : l[j].op \in {"BeginValueProposals", "BeginPolicyProposals"}}}

\* The handlers in the order of their BeginValueProposals calls.
BeginOrder(l) ==
    LET b == SelectSeq(l, LAMBDA c : c.op = "BeginValueProposals")
    IN  [i \in DOMAIN b |-> b[i].h]

Summary(e, l) ==
    [ok |-> e = Nil, proposed |-> Proposed(l), handlers |-> HandlersInvoked(l),
     order |-> BeginOrder(l)]

\* ------------------------------------------------------------------ actions
Init ==
    /\ channelGroup \in Trees
    /\ faults \in FaultSets(FaultPoints(channelGroup), MaxFaults)
    /\ pc = "idle"
    /\ log = <<>>
    /\ groupResult = Nil
    /\ err = Nil
    /\ prev = {}
    /\ run = 1

ProcessConfig ==
    /\ pc = "idle"
    /\ \E o \in Orders :
        LET r == processConfig(o, <<>>)
        IN  /\ log' = r.log
            /\ groupResult' = r.result
            /\ err' = r.err
            /\ pc' = IF r.err = Nil THEN "built" ELSE "failed"
    /\ UNCHANGED <<channelGroup, faults, prev, run>>

Commit ==
    /\ pc = "built"
    /\ log' = commit(groupResult, log)
    /\ pc' = "committed"
    /\ UNCHANGED <<channelGroup, faults, groupResult, err, prev, run>>

Rollback ==
    /\ pc = "built"
    /\ log' = rollback(groupResult, log)
    /\ pc' = "rolledback"
    /\ UNCHANGED <<channelGroup, faults, groupResult, err, prev, run>>

\* The caller submits the unchanged tree again.
NextRun ==
    /\ pc \in {"failed", "committed", "rolledback"}
    /\ run < MaxRuns
    /\ prev' = prev \cup {Summary(err, log)}
    /\ run' = run + 1
    /\ pc' = "idle"
    /\ log' = <<>>
    /\ groupResult' = Nil
    /\ err' = Nil
    /\ UNCHANGED <<channelGroup, faults>>

Next == ProcessConfig \/ Commit \/ Rollback

Spec == Init /\ [][Next]_vars

NextRepeat == Next \/ NextRun

SpecRepeat == Init /\ [][NextRepeat]_vars

\* ================================================================ properties
\* The calls of the current run made on handler <<kind, h>> with operation op.
CallsOf(op, kind, h) ==
    {i \in DOMAIN log : log[i].op = op /\ log[i].kind = kind /\ log[i].h = h}

Kinds == {"value", "policy"}

\* Every call of the run made on a handler of group name n.
CallsOn(n) == {i \in DOMAIN log : log[i].h = n}

RolledBack(n) ==
    \A kind \in Kinds : CallsOf("RollbackProposals", kind, n) # {}

NoCommit == \A i \in DOMAIN log : log[i].op # "CommitProposals"

\* The groups of the subtree of group n of the tree passed to processConfig.
RECURSIVE Subtree(_)
Subtree(n) == {n} \cup UNION {Subtree(c) : c \in Group(n).Groups}

\* C1. Atomicity: when processConfig has returned an error, CommitProposals
\* has been invoked on no value handler and on no policy handler, whatever
\* the tree, the enumeration orders and the proposer calls that fail.
C1_Atomicity == pc = "failed" => NoCommit

\* A failed run in which a PreCommit failed below the top level and handlers
\* were rolled back.
C1_Witness ==
    /\ pc = "failed"
    /\ \E i \in DOMAIN log : log[i].op = "PreCommit" /\ log[i].err # Nil /\ log[i].h > RootGroupKey
    /\ \E i \in DOMAIN log : log[i].op = "RollbackProposals" /\ log[i].h = RootGroupKey

\* C2. All-or-nothing: when processConfig has returned an error, every handler
\* on which Begin*Proposals succeeded during the call has had RollbackProposals
\* invoked on it afterwards.
C2_AllRolledBack ==
    pc = "failed" =>
        \A i \in DOMAIN log :
            (log[i].op \in {"BeginValueProposals", "BeginPolicyProposals"} /\ log[i].err = Nil)
                => \E j \in CallsOf("RollbackProposals", log[i].kind, log[i].h) : j > i

\* C3. PreCommit once per node: during one processConfig call the value
\* handler of each group has PreCommit invoked at most once, and exactly once
\* when the call succeeds.
C3_PreCommitOnce ==
    \A n \in {HelperGroup} \cup Names :
        /\ Cardinality(CallsOf("PreCommit", "value", n)) <= 1
        /\ pc = "built" => Cardinality(CallsOf("PreCommit", "value", n)) = 1

\* The case of C4: group g has exactly the three child groups a, b, c, and the
\* only proposer call that fails is PreCommit of c's handler.
ThreeSiblings(g, a, b, c) ==
    /\ g \in Names
    /\ Cardinality({a, b, c}) = 3
    /\ Group(g).Groups = {a, b, c}
    /\ faults = {<<"PreCommit", c, 0>>}

RECURSIVE ResultCount(_)
ResultCount(cr) ==
    LET RECURSIVE Sum(_)
        Sum(i) == IF i = 0 THEN 0 ELSE ResultCount(cr.subResults[i]) + Sum(i - 1)
    IN  1 + Sum(Len(cr.subResults))

\* The configResult cr is the entry of group g and its subResults are, one for
\* one, the entries of the child groups of g, each mirroring its child.
RECURSIVE Mirrors(_, _)
Mirrors(cr, g) ==
    /\ cr.handler = g
    /\ cr.policyHandler = g
    /\ Len(cr.subResults) = Cardinality(Group(g).Groups)
    /\ {cr.subResults[i].handler : i \in DOMAIN cr.subResults} = Group(g).Groups
    /\ \A i \in DOMAIN cr.subResults : Mirrors(cr.subResults[i], cr.subResults[i].handler)

\* C5 as stated: on success the returned configResult tree has one entry per
\* group of the tree passed to processConfig, the same count and nesting.
C5_ResultIsInputTree ==
    pc = "built" =>
        /\ ResultCount(groupResult) = Cardinality(Names)
        /\ Mirrors(groupResult, RootGroupKey)

\* C5 amended: on success the returned configResult is the entry of the
\* synthetic root; it has exactly one subResult, which mirrors the tree passed
\* to processConfig (one entry per group, same nesting), so the result has
\* one entry more than the input tree has groups.
C5_ResultWrapsInputTree ==
    pc = "built" =>
        /\ Len(groupResult.subResults) = 1
        /\ Mirrors(groupResult.subResults[1], RootGroupKey)
        /\ ResultCount(groupResult) = Cardinality(Names) + 1
        /\ Mirrors(groupResult, HelperGroup)

\* A successful run over a tree with nested and sibling groups.
C5_Witness ==
    /\ pc = "built"
    /\ Cardinality(Names) >= 4
    /\ \E n \in Names : Cardinality(Group(n).Groups) >= 2
    /\ \E n \in Names \ {RootGroupKey} : Group(n).Groups # {}

\* processConfig has returned in the current run.
Returned == pc \in {"built", "failed", "committed", "rolledback"}

\* C6. Order independence of the outcome: over a fixed tree with fixed faults,
\* two runs of processConfig end the same way (both succeed or both return an
\* error), whatever the orders their proposeGroup calls enumerate siblings in.
C6_SameOutcome ==
    Returned => \A s \in prev : s.ok = (err = Nil)

\* A second run that fails like the first although the two visited the
\* groups in different orders and two proposer calls are set to fail.
C6_Witness ==
    /\ pc = "failed"
    /\ Cardinality(faults) = 2
    /\ \E n \in Names : Cardinality(Group(n).Groups) >= 2
    /\ \E s \in prev : ~s.ok /\ s.proposed # Proposed(log)

\* C7 as stated: two runs over a fixed tree with fixed faults begin proposals
\* on the same set of handlers and propose the same set of values and
\* policies, whether the runs are accepted or rejected.
C7_SameProposals ==
    Returned =>
        \A s \in prev : s.proposed = Proposed(log) /\ s.handlers = HandlersInvoked(log)

\* C7 amended: two accepted runs begin proposals on the same set of handlers
\* and propose the same set of values and policies; rejected runs may differ,
\* since the siblings enumerated after the failing one are not visited.
C7_SameProposalsWhenAccepted ==
    (Returned /\ err = Nil) =>
        \A s \in prev : s.proposed = Proposed(log) /\ s.handlers = HandlersInvoked(log)

\* A second accepted run that visited the groups in another order.
C7_Witness ==
    /\ pc = "built"
    /\ \E s \in prev : s.order # BeginOrder(log)

\* The entries of a configResult tree, and the handlers below an entry.
RECURSIVE Entries(_)
Entries(cr) == {cr} \cup UNION {Entries(cr.subResults[i]) : i \in DOMAIN cr.subResults}

HandlersBelow(cr) == {d.handler : d \in Entries(cr) \ {cr}}

\* Every call `op` on a handler of an entry's subResults (at any depth) is
\* made, and is made before every call `op` on the entry's own handlers.
PostOrder(op) ==
    \A cr \in Entries(groupResult) :
        /\ \A kind \in Kinds : CallsOf(op, kind, cr.handler) # {}
        /\ \A d \in HandlersBelow(cr) :
            \A i, j \in DOMAIN log :
                (log[i].op = op /\ log[i].h = d /\ log[j].op = op /\ log[j].h = cr.handler)
                    => i < j

\* C8. Post-order cascade: commit() on a built result invokes CommitProposals
\* on every handler of a child's subtree before the parent's own handlers, and
\* rollback() on a built, never committed result does so with
\* RollbackProposals.
C8_PostOrder ==
    /\ pc = "committed" => PostOrder("CommitProposals")
    /\ pc = "rolledback" => PostOrder("RollbackProposals")

\* A committed result with entries nested two deep below the synthetic root.
C8_Witness ==
    /\ pc = "committed"
    /\ \E cr \in Entries(groupResult) :
        cr.handler # HelperGroup /\ \E d \in Entries(cr) \ {cr} : d.subResults # <<>>

\* The BeginValueProposals calls that returned, without an error, a number of
\* child handlers that is not the number of names.
WrongValueCount ==
    {i \in DOMAIN log : /\ log[i].op = "BeginValueProposals"
                        /\ log[i].err = Nil
                        /\ Len(log[i].ret) # Len(log[i].arg)}

IsContractViolation(e) == e.kind = "Programming error"

\* C9 as stated: whenever BeginValueProposals returns a handler sequence of
\* the wrong length, processConfig returns the handler-count error and no
\* configResult.
C9_MismatchDetected ==
    (Returned /\ WrongValueCount # {}) =>
        IsContractViolation(err) /\ groupResult = Nil

\* C9 amended: when BeginValueProposals returns a handler sequence of the
\* wrong length, processConfig returns no configResult and an error: the
\* handler-count error if BeginPolicyProposals of the same node succeeds, and
\* the error of that BeginPolicyProposals if it fails.
C9_MismatchDetectedAfterBeginPolicy ==
    Returned =>
        \A i \in WrongValueCount :
            /\ groupResult = Nil
            /\ i < Len(log)
            /\ log[i + 1].op = "BeginPolicyProposals"
            /\ log[i + 1].h = log[i].h
            /\ IF log[i + 1].err = Nil THEN IsContractViolation(err)
                                       ELSE err = log[i + 1].err

\* 2 handlers returned for 3 names, BeginPolicyProposals succeeding.
C9_Witness ==
    /\ pc = "failed"
    /\ \E i \in WrongValueCount :
        /\ Len(log[i].arg) = 3
        /\ Len(log[i].ret) = 2
        /\ log[i + 1].err = Nil
        /\ IsContractViolation(err)

\* C10. Root wrapping: the top-level handlers get Begin*Proposals (the value
\* handler once, the policy handler once when that call succeeded) for the one
\* name RootGroupKey and never Deserialize or ProposePolicy; every Deserialize
\* and ProposePolicy for a value or policy of channelGroup itself is made on
\* the handler the top-level Begin*Proposals returned at the first position.
C10_RootWrapping ==
    Returned =>
        /\ Cardinality(CallsOf("BeginValueProposals", "value", TopHandler)) = 1
        /\ Cardinality(CallsOf("BeginPolicyProposals", "policy", TopHandler))
            = (IF log[1].err = Nil THEN 1 ELSE 0)
        /\ \A i \in DOMAIN log :
            /\ (log[i].h = TopHandler /\ log[i].op \in {"BeginValueProposals", "BeginPolicyProposals"})
                => log[i].arg = <<RootGroupKey>>
            /\ log[i].h = TopHandler => log[i].op \notin {"Deserialize", "ProposePolicy"}
            /\ (log[i].op \in {"Deserialize", "ProposePolicy"} /\ log[i].arg[2] = RootGroupKey)
                => \E j \in DOMAIN log :
                    /\ j < i
                    /\ log[j].h = TopHandler /\ log[j].kind = log[i].kind
                    /\ log[j].op \in {"BeginValueProposals", "BeginPolicyProposals"}
                    /\ log[j].ret # <<>>
                    /\ log[i].h = log[j].ret[1]

\* A run in which a value and a policy of channelGroup were proposed.
C10_Witness ==
    /\ Returned
    /\ \E i, j \in DOMAIN log :
        /\ log[i].op = "Deserialize" /\ log[i].arg[2] = RootGroupKey
        /\ log[j].op = "ProposePolicy" /\ log[j].arg[2] = RootGroupKey

\* The calls of the run that returned an error, and the Begin*Proposals calls
\* that returned a number of handlers that is not the number of names.
Failing == {i \in DOMAIN log : log[i].err # Nil}

WrongCount ==
    {i \in DOMAIN log : /\ log[i].op \in {"BeginValueProposals", "BeginPolicyProposals"}
                        /\ log[i].err = Nil
                        /\ Len(log[i].ret) # Len(log[i].arg)}

AllGroups == {HelperGroup} \cup Names

\* Every step of the walk was made, for every group, and succeeded.
AllSucceeded ==
    /\ Failing = {}
    /\ WrongCount = {}
    /\ \A n \in AllGroups :
        /\ CallsOf("BeginValueProposals", "value", n) # {}
        /\ CallsOf("BeginPolicyProposals", "policy", n) # {}
        /\ \A k \in Group(n).Values :
            \E i \in CallsOf("Deserialize", "value", n) : log[i].arg = <<k, n>>
        /\ \A k \in Group(n).Policies :
            \E i \in CallsOf("ProposePolicy", "policy", n) : log[i].arg = <<k, n>>
        /\ CallsOf("PreCommit", "value", n) # {}

\* C11. Proof object: processConfig returns either a result and no error or
\* an error and no result, never both and never neither; it returns a result
\* only if, for every group, BeginValueProposals, BeginPolicyProposals, the
\* handler-count check, every Deserialize, every ProposePolicy and PreCommit
\* were made and succeeded.
C11_ProofObject ==
    Returned =>
        /\ (groupResult = Nil) <=> (err # Nil)
        /\ (pc = "failed") <=> (err # Nil)
        /\ err = Nil => AllSucceeded

\* A result returned for a tree of at least three groups.
C11_Witness ==
    /\ pc = "built"
    /\ groupResult # Nil
    /\ Cardinality(Names) >= 3

\* C12. Error propagation: the error processConfig returns is the error of
\* the one failing call of the run, or the handler-count error of the node
\* whose Begin*Proposals returned a wrong count, unchanged by the ancestors;
\* after that step only RollbackProposals calls are made (no call is retried,
\* no later error arises).
C12_FirstErrorUnchanged ==
    pc = "failed" =>
        /\ Cardinality(Failing) <= 1
        /\ \A i \in Failing :
            /\ err = log[i].err
            /\ \A j \in DOMAIN log : j > i => log[j].op = "RollbackProposals"
        /\ Failing = {} =>
            /\ IsContractViolation(err)
            /\ \E i \in WrongCount :
                /\ err.h = log[i].h
                /\ \A j \in DOMAIN log :
                    (j > i /\ log[j].op # "RollbackProposals")
                        => (j = i + 1 /\ log[j].op = "BeginPolicyProposals" /\ log[j].h = log[i].h)

\* An error of a Deserialize two levels below channelGroup, returned after
\* the rollbacks of the ancestors.
C12_Witness ==
    /\ pc = "failed"
    /\ \E i \in Failing :
        /\ log[i].op = "Deserialize"
        /\ \E p \in Names \ {RootGroupKey} : log[i].h \in Group(p).Groups
        /\ err = log[i].err
        /\ log[Len(log)].h = TopHandler

\* The successful calls `op` made on handler <<kind, h>> for key k of group h
\* before position i of the log.
ProposedBefore(op, kind, h, k, i) ==
    \E j \in CallsOf(op, kind, h) : j < i /\ log[j].arg = <<k, h>> /\ log[j].err = Nil

\* The calls just before position i are one successful PreCommit on the
\* handler of each group below h, and nothing else: the cascade that ends in
\* the PreCommit at i.
CascadeBefore(h, i) ==
    LET n == Cardinality(Subtree(h))
    IN  /\ i >= n
        /\ {log[j].h : j \in (i - n + 1)..(i - 1)} = Subtree(h) \ {h}
        /\ \A j \in (i - n + 1)..(i - 1) : log[j].op = "PreCommit" /\ log[j].err = Nil

\* C13. PreCommit ordering: every PreCommit on the handler of a group comes
\* after a successful Deserialize of each of its values and a successful
\* ProposePolicy of each of its policies, and directly after the successful
\* PreCommit, in the same cascade, of every group below it.
C13_PreCommitLast ==
    \A i \in DOMAIN log :
        log[i].op = "PreCommit" =>
            /\ \A k \in Group(log[i].h).Values :
                ProposedBefore("Deserialize", "value", log[i].h, k, i)
            /\ \A k \in Group(log[i].h).Policies :
                ProposedBefore("ProposePolicy", "policy", log[i].h, k, i)
            /\ CascadeBefore(log[i].h, i)
            /\ \A c \in Group(log[i].h).Groups :
                \E j \in CallsOf("PreCommit", "value", c) : j < i /\ CascadeBefore(c, j)

\* A PreCommit on a group that has values, policies and a child with a child.
C13_Witness ==
    \E i \in DOMAIN log :
        /\ log[i].op = "PreCommit"
        /\ log[i].h \in Names
        /\ \E c \in Group(log[i].h).Groups : Group(c).Groups # {}

\* The group whose Groups map holds group n.
Parent(n) == CHOOSE p \in AllGroups : n \in Group(p).Groups

RECURSIVE Ancestors(_)
Ancestors(n) == IF n = HelperGroup THEN {} ELSE {Parent(n)} \cup Ancestors(Parent(n))

\* The group at which the run failed (the handler of the failing call or of
\* the wrong handler count), and the groups whose proposeGroup returned an
\* error to a parent: that group and its ancestors below the synthetic root.
FailNodes == {log[i].h : i \in Failing \cup WrongCount}

FailedChildren == UNION {({f} \cup Ancestors(f)) \ {HelperGroup} : f \in FailNodes}

\* Group n passed its handler-count check: a configResult was made for it.
Allocated(n) ==
    /\ \E i \in CallsOf("BeginValueProposals", "value", n) :
        log[i].err = Nil /\ Len(log[i].ret) = Len(log[i].arg)
    /\ \E i \in CallsOf("BeginPolicyProposals", "policy", n) :
        log[i].err = Nil /\ Len(log[i].ret) = Len(log[i].arg)

Rollbacks(n) == {i \in CallsOn(n) : log[i].op = "RollbackProposals"}

RolledBackOnce(n) ==
    \A kind \in Kinds : Cardinality(CallsOf("RollbackProposals", kind, n)) = 1

C15_BeginFailure ==
    \A i \in Failing :
        log[i].op \in {"BeginValueProposals", "BeginPolicyProposals"} =>
            /\ log[i].op = "BeginValueProposals"
                => CallsOf("BeginPolicyProposals", "policy", log[i].h) = {}
            /\ \A n \in Subtree(log[i].h) \ {log[i].h} : CallsOn(n) = {}
            /\ \A j \in CallsOn(log[i].h) :
                log[j].op \in {"BeginValueProposals", "BeginPolicyProposals"}
            /\ \A j \in DOMAIN log :
                j > i => (log[j].op = "RollbackProposals" /\ log[j].h # log[i].h)

\* BeginPolicyProposals failing at a group that has children, below a parent
\* that then rolls back.
C15_Witness ==
    \E i \in Failing :
        /\ log[i].op = "BeginPolicyProposals"
        /\ log[i].h \in Names
        /\ Group(log[i].h).Groups # {}
        /\ i < Len(log)

\* The calls of op for key k of group h.
KeyCalls(op, h, k) == {i \in DOMAIN log : log[i].op = op /\ log[i].arg = <<k, h>>}

\* The proposeGroup of group h returned a result: its own cascade ended with
\* a successful PreCommit on its handler.
PassSucceeded(h) == \E i \in CallsOf("PreCommit", "value", h) : log[i].err = Nil

C17_PreCommitFailure ==
    \A i \in Failing :
        log[i].op = "PreCommit" =>
            LET sub == Subtree(log[i].h)
                last == i + 2 * Cardinality(sub)
            IN  /\ \A j \in DOMAIN log : j > i => log[j].op # "PreCommit"
                /\ last <= Len(log)
                /\ \A j \in (i + 1)..last :
                    log[j].op = "RollbackProposals" /\ log[j].h \in sub
                /\ \A n \in sub : \A kind \in Kinds :
                    \E j \in (i + 1)..last : log[j].kind = kind /\ log[j].h = n
                /\ \A j \in DOMAIN log : j > last => log[j].h \notin sub

\* The PreCommit of a group below the root group fails in the cascade of that
\* group, which has a child.
C17_Witness ==
    \E i \in Failing :
        /\ log[i].op = "PreCommit"
        /\ log[i].h \in Names \ {RootGroupKey}
        /\ Group(log[i].h).Groups # {}

OpCalls(op) == {i \in DOMAIN log : log[i].op = op}

\* C18. Commit coverage: a successful processConfig has called neither
\* CommitProposals nor RollbackProposals; one commit() on the result it
\* returned calls CommitProposals exactly once on the value handler and
\* exactly once on the policy handler of every entry of the result, the value
\* handler first, on no other handler, and calls no RollbackProposals.
C18_CommitCoverage ==
    /\ pc = "built" =>
        OpCalls("CommitProposals") = {} /\ OpCalls("RollbackProposals") = {}
    /\ pc = "committed" =>
        /\ \A cr \in Entries(groupResult) :
            \E i \in CallsOf("CommitProposals", "value", cr.handler) :
            \E j \in CallsOf("CommitProposals", "policy", cr.policyHandler) :
                /\ CallsOf("CommitProposals", "value", cr.handler) = {i}
                /\ CallsOf("CommitProposals", "policy", cr.policyHandler) = {j}
                /\ i < j
        /\ Cardinality(OpCalls("CommitProposals")) = 2 * Cardinality(Entries(groupResult))
        /\ OpCalls("RollbackProposals") = {}

\* A committed result of as many entries as the bound allows, with a group
\* that has two children.
C18_Witness ==
    /\ pc = "committed"
    /\ Cardinality(Entries(groupResult)) = MaxNodes + 1
    /\ \E n \in Names : Cardinality(Group(n).Groups) >= 2

\* C19. No double rollback: in a processConfig call that returned an error,
\* no handler has had RollbackProposals called more than once, and every
\* group that passed its handler-count check has had RollbackProposals called
\* exactly once on its value handler and exactly once on its policy handler.
C19_NoDoubleRollback ==
    pc = "failed" =>
        /\ \A i, j \in OpCalls("RollbackProposals") :
            (log[i].h = log[j].h /\ log[i].kind = log[j].kind) => i = j
        /\ \A n \in AllGroups : Allocated(n) => RolledBackOnce(n)

\* A failure three levels below the synthetic root, after a sibling of the
\* failing group's parent has succeeded: rollbacks are made at three levels.
C19_Witness ==
    /\ pc = "failed"
    /\ \E f \in FailNodes : \E s \in Names :
        /\ f \in Names \ {RootGroupKey}
        /\ Parent(f) # RootGroupKey
        /\ Allocated(f)
        /\ s \in Group(RootGroupKey).Groups
        /\ s # Parent(f)
        /\ PassSucceeded(s)

\* Depth of a group below the synthetic root, which has depth 0.
Depth(n) == Cardinality(Ancestors(n))

\* C20. Repeated PreCommit cascade: after a successful processConfig the
\* value handler of a group at depth d below the synthetic root has had
\* PreCommit called exactly d + 1 times, and no PreCommit has been called on
\* a policy handler.
C20_RepeatedPreCommit ==
    pc \in {"built", "committed", "rolledback"} =>
        /\ \A n \in AllGroups :
            Cardinality(CallsOf("PreCommit", "value", n)) = Depth(n) + 1
        /\ \A i \in OpCalls("PreCommit") : log[i].kind = "value"

\* A successful processConfig over a tree with a group at depth 3.
C20_Witness ==
    /\ pc = "built"
    /\ \E n \in Names : Depth(n) = 3 /\ Cardinality(CallsOf("PreCommit", "value", n)) = 4

====
